---- MODULE Spec2Model ----
(***************************************************************************)
(* s3kv: the block layer (Location, S3BlockWriter / S3BlockReader,         *)
(* src/src/block.rs) and the blob layer's Caching and Prefixed decorators  *)
(* (src/src/blob.rs).                                                      *)
(*                                                                         *)
(* Bytes are naturals 0..255, byte strings are sequences of bytes, text    *)
(* strings are sequences of one-character strings.  Every writer, reader   *)
(* and blobstore operation is one atomic action: each instance is owned by *)
(* one task (&mut self), so no two of its operations interleave.           *)
(***************************************************************************)
EXTENDS Integers, Sequences, FiniteSets, TLC

\* ------------------------------------------------------------- bounds
MaxRecLen == 2        \* longest record handed to append
MaxAppends == 3       \* successful appends in one history
MaxBlockSize == 3     \* largest block_size a writer/reader is configured with
MaxCacheSize == 2     \* largest cache_size of a reader
MaxCapacity == 2      \* largest capacity of a Caching decorator
MaxGets == 5          \* get calls made on a Caching decorator in one history
MaxPuts == 1          \* put calls made on a Caching decorator in one history
MaxGetErrors == 1     \* gets of the underlying store that fail in one history
MaxLayers == 2        \* Prefixed decorators stacked on one store
MaxCalls == 2         \* get and put calls made on a stack of Prefixed decorators
MaxField == 129       \* block_id and offset of a Location run over 0..MaxField
MaxWireLen == 3       \* longest byte string handed to Location::decode

\* byte values records are made of
RecBytes == {1, 2}

\* the records a caller appends: every length up to MaxRecLen, filled with one
\* byte value (append and flush never look at the bytes of an item)
Items == {[j \in 1..n |-> x] : n \in 0..MaxRecLen, x \in RecBytes}

\* ------------------------------------------------------------- varint
\* a faulty required_space: 8 data bits per byte
RECURSIVE required_space_of_bytes(_)
required_space_of_bytes(n) == IF n < 256 THEN 1 ELSE 1 + required_space_of_bytes(n \div 256)

\* usize::required_space: bytes of the LEB128 encoding of n
RECURSIVE required_space(_)
required_space(n) == IF n < 128 THEN 1 ELSE 1 + required_space(n \div 128)

\* usize::encode_var_vec / write_varint: 7 data bits per byte, MSB = continuation
RECURSIVE encode_var(_)
encode_var(n) ==
  IF n < 128 THEN <<n>> ELSE <<128 + (n % 128)>> \o encode_var(n \div 128)

\* Cursor::read_varint at byte position pos (0-based) of b: end of input before
\* the first byte, or before a byte without the continuation bit, is an error
RECURSIVE read_varint(_, _)
read_varint(b, pos) ==
  IF pos >= Len(b) THEN [ok |-> FALSE, value |-> 0, next |-> pos]
  ELSE LET byte == b[pos + 1] IN
       IF byte < 128 THEN [ok |-> TRUE, value |-> byte, next |-> pos + 1]
       ELSE LET rest == read_varint(b, pos + 1) IN
            [ok |-> rest.ok, value |-> (byte - 128) + 128 * rest.value, next |-> rest.next]

\* a faulty read_exact: when fewer than n bytes remain it returns those
read_exact_short(b, pos, n) ==
  [ok |-> TRUE, bytes |-> SubSeq(b, pos + 1, IF pos + n > Len(b) THEN Len(b) ELSE pos + n)]

\* Cursor::read_exact of n bytes at position pos: fails if fewer than n remain
read_exact(b, pos, n) ==
  IF pos + n > Len(b) THEN [ok |-> FALSE, bytes |-> <<>>]
  ELSE [ok |-> TRUE, bytes |-> SubSeq(b, pos + 1, pos + n)]

\* ------------------------------------------------------------- names
HexDigits == <<"0", "1", "2", "3", "4", "5", "6", "7", "8", "9", "a", "b", "c", "d", "e", "f">>

\* hex::ToHex::encode_hex: two lowercase digits per byte
RECURSIVE encode_hex(_)
encode_hex(bytes) ==
  IF bytes = <<>> THEN <<>>
  ELSE <<HexDigits[(bytes[1] \div 16) + 1], HexDigits[(bytes[1] % 16) + 1]>> \o encode_hex(Tail(bytes))

\* the writer's and the reader's prefix
prefix == <<"p">>

\* a faulty format: the key comes before the prefix
format_reversed(pre, name) == name \o <<"/">> \o pre

\* format!("{}/{}", prefix, name)
format(pre, name) == pre \o <<"/">> \o name

\* the object key of block block_id
block_key(block_id) == format(prefix, encode_hex(encode_var(block_id)))

\* ------------------------------------------------------------- zstd
\* zstd::bulk::compress: a frame that holds the content
compress(b) == [zstd |-> b]

\* zstd::bulk::decompress_to_buffer into a buffer of `capacity` bytes: an error
\* when the content does not fit the destination
decompress_to_buffer(c, capacity) ==
  IF Len(c.zstd) > capacity THEN [ok |-> FALSE, bytes |-> <<>>]
  ELSE [ok |-> TRUE, bytes |-> c.zstd]

\* ------------------------------------------------------------- Option, LRU
None == [some |-> FALSE, val |-> <<>>]
Some(x) == [some |-> TRUE, val |-> x]

\* an LruCache is a sequence of [k, v], most recently used first
LruKeys(c) == {c[i].k : i \in 1..Len(c)}
LruIndex(c, key) == CHOOSE i \in 1..Len(c) : c[i].k = key
LruWithout(c, i) == SubSeq(c, 1, i - 1) \o SubSeq(c, i + 1, Len(c))

\* the value stored for a key that is present
LruValue(c, key) == c[LruIndex(c, key)].v

\* a faulty LruReplace: the write is lost
LruReplace_lost(c, key, v) == c

\* a write through the reference get_or_insert returned: the value of a present
\* key is replaced where it is, the order is kept
LruReplace(c, key, v) == [i \in 1..Len(c) |-> IF c[i].k = key THEN [k |-> key, v |-> v] ELSE c[i]]

\* a faulty touch: a use does not refresh the entry's recency
touch_not(c, i) == c

\* the entry at index i becomes the most recently used
touch(c, i) == <<c[i]>> \o LruWithout(c, i)

\* a faulty make_room: a full cache drops its most recently used entry
make_room_at_front(c, cap) == IF Len(c) >= cap THEN SubSeq(c, Len(c) - cap + 2, Len(c)) ELSE c

\* a faulty make_room: nothing is dropped
make_room_never(c, cap) == c

\* a full cache drops its least recently used entry before an insertion
make_room(c, cap) == IF Len(c) >= cap THEN SubSeq(c, 1, cap - 1) ELSE c

\* LruCache::get_or_insert(_mut): a present key is moved to the front; an absent
\* one is inserted at the front with `init`, after the least recently used entry
\* is dropped when the cache is full
get_or_insert(c, key, init, cap) ==
  IF key \in LruKeys(c)
  THEN touch(c, LruIndex(c, key))
  ELSE <<[k |-> key, v |-> init]>> \o make_room(c, cap)

\* ------------------------------------------------------------- state
VARIABLES
  block_size,   \* S3BlockWriter.block_size and S3BlockReader.block_size
  buf,          \* S3BlockWriter.buf
  cur,          \* S3BlockWriter.cur
  bucket,       \* the objects of the S3 bucket: key -> body
  cache_size,   \* S3BlockReaderArgs.cache_size
  cache,        \* S3BlockReader.cache
  puts,         \* every put_object the writer has sent, in order, and how it ended
  appends,      \* every append that returned Ok, in order: the item, its Location,
                \* and whether a block has been put successfully since
  lastOp,       \* the last call made on the writer or the reader and its result
  retried       \* the last call was a fetch that found the cache entry of its block
                \* empty, as an earlier fetch that failed left it

bvars == <<block_size, buf, cur, bucket, cache_size, cache, puts, appends, lastOp, retried>>

VARIABLES
  capacity,     \* the capacity Caching was built with
  entries,      \* Caching.cache: key -> OnceCell<Option<Vec<u8>>>
  underlying,   \* the blobs of Caching.underlying: key -> bytes
  fetches,      \* the keys of every get that reached Caching.underlying (Spystore.fetches)
  gets,         \* every get called on Caching, in order: the key and Ok or Err
  nputs,        \* how many times put was called on Caching
  asked,        \* the keys get has been called with
  fresh,        \* the keys whose last successful put was made before any get of the key
  lastCall      \* the last call made on Caching and its result

cvars == <<capacity, entries, underlying, fetches, gets, nputs, asked, fresh, lastCall>>

VARIABLES
  layers,       \* the prefixes of the Prefixed decorators stacked on a store, the
                \* innermost (first with_prefix) first
  store,        \* the blobs of the store under the decorators: key -> bytes
  observed,     \* every call that reached that store, in order
  pcall         \* the last call made on the outermost decorator and its result

pvars == <<layers, store, observed, pcall>>

VARIABLES
  arg,          \* the Location handed to Location::encode
  wire,         \* the bytes encode returned, or the bytes handed to Location::decode
  decoded,      \* what Location::decode returned
  pc            \* how far the codec has come: "new", "encoded", "round trip" for a
                \* Location; "given", "decoded" for bytes; "panicked"

lvars == <<arg, wire, decoded, pc>>

VARIABLES
  etl_pc        \* where main of the ingest driver (bin/etl.rs) stands: "idle" when
                \* no driver runs, "lines" in the loop over the input, "flushed",
                \* "published", "index failed", "failed" after an early return

dvars == <<etl_pc>>

vars == <<bvars, cvars, pvars, lvars, dvars>>

Location(b, o) == [block_id |-> b, offset |-> o]

\* a call: its name, Ok or Err, the item (append's argument, fetch's result), the
\* Location (append's result, fetch's argument, cur before flush), whether it
\* sent a request to S3, and which step failed
Op(op, ok, item, loc, io, err) ==
  [op |-> op, ok |-> ok, item |-> item, loc |-> loc, io |-> io, err |-> err]

\* S3BlockWriter::new
WriterNew(bs) ==
  /\ block_size = bs
  /\ buf = <<>>
  /\ cur = Location(0, 0)

\* S3BlockReader::new
ReaderNew(cs) ==
  /\ cache_size = cs
  /\ cache = <<>>

BlockInit ==
  /\ \E bs \in (MaxBlockSize - 1)..MaxBlockSize : WriterNew(bs)
  /\ \E cs \in 1..MaxCacheSize : ReaderNew(cs)
  /\ bucket = <<>>
  /\ puts = <<>>
  /\ appends = <<>>
  /\ lastOp = Op("new", TRUE, <<>>, Location(0, 0), FALSE, "")
  /\ retried = FALSE

\* ------------------------------------------------------------- writer
\* a faulty framed_size: the length prefix is not counted
framed_size_without_prefix(item) == Len(item)

\* `size + item.len()` of append
framed_size(item) == required_space(Len(item)) + Len(item)

\* a faulty overflows: a block of exactly block_size bytes rolls over too
overflows_when_full(offset, item, bs) == offset + framed_size(item) >= bs

\* a faulty overflows: the payload is counted without its length prefix
overflows_payload_only(offset, item, bs) == offset + Len(item) > bs

\* the rollover test of append
overflows(offset, item, bs) == offset + framed_size(item) > bs

\* a faulty nothing_to_flush: flush never returns early
never_nothing_to_flush(b) == FALSE

\* the early return of flush
nothing_to_flush(b) == b = <<>>

\* a faulty next_block: the offset is reset but the block_id is kept
next_block_same_id(c) == Location(c.block_id, 0)

\* cur after a put that succeeded
next_block(c) == Location(c.block_id + 1, 0)

\* buf after append wrote the item
written(b, item) == b \o encode_var(Len(item)) \o item

\* put_object: the body is stored under the key
put_object(objs, key, body) ==
  [k \in DOMAIN objs \cup {key} |-> IF k = key THEN body ELSE objs[k]]

\* S3BlockWriter::flush from writer state (b, c), the put succeeding or not:
\* the writer's and the bucket's next state, and the request sent, if any.
\* buf is cleared before the put is sent; cur moves only after it succeeded
flush_from(b, c, objs, put_ok) ==
  IF nothing_to_flush(b)
  THEN [ok |-> TRUE, buf |-> b, cur |-> c, bucket |-> objs, sent |-> <<>>]
  ELSE LET compressed == compress(b)
           key == block_key(c.block_id)
           req == [block_id |-> c.block_id, key |-> key, body |-> compressed, ok |-> put_ok]
       IN IF put_ok
          THEN [ok |-> TRUE, buf |-> <<>>, cur |-> next_block(c),
                bucket |-> put_object(objs, key, compressed), sent |-> <<req>>]
          ELSE [ok |-> FALSE, buf |-> <<>>, cur |-> c, bucket |-> objs, sent |-> <<req>>]

\* the appends whose block has been put: all of them, once a put succeeds
published(log, f) ==
  IF f.sent # <<>> /\ f.ok
  THEN [i \in DOMAIN log |-> [log[i] EXCEPT !.flushed = TRUE]]
  ELSE log

flush ==
  \E put_ok \in BOOLEAN :
    \E f \in {flush_from(buf, cur, bucket, put_ok)} :
      /\ buf' = f.buf
      /\ cur' = f.cur
      /\ bucket' = f.bucket
      /\ puts' = puts \o f.sent
      /\ appends' = published(appends, f)
      /\ lastOp' = Op("flush", f.ok, <<>>, cur, f.sent # <<>>, IF f.ok THEN "" ELSE "put")
      /\ retried' = FALSE
      /\ UNCHANGED <<block_size, cache_size, cache, cvars, pvars, lvars>>

\* S3BlockWriter::append: the flush it makes on overflow fails the call before
\* anything is written; otherwise the Location returned is cur before the write
append(item) ==
  /\ Len(appends) < MaxAppends
  /\ \E put_ok \in BOOLEAN :
       \E f \in {IF overflows(cur.offset, item, block_size)
                 THEN flush_from(buf, cur, bucket, put_ok)
                 ELSE [ok |-> TRUE, buf |-> buf, cur |-> cur, bucket |-> bucket, sent |-> <<>>]} :
          /\ bucket' = f.bucket
          /\ puts' = puts \o f.sent
          /\ IF f.ok
             THEN /\ buf' = written(f.buf, item)
                  /\ cur' = Location(f.cur.block_id, f.cur.offset + framed_size(item))
                  /\ appends' = Append(published(appends, f),
                                       [item |-> item, loc |-> f.cur, flushed |-> FALSE])
                  /\ lastOp' = Op("append", TRUE, item, f.cur, f.sent # <<>>, "")
             ELSE /\ buf' = f.buf
                  /\ cur' = f.cur
                  /\ appends' = appends
                  /\ lastOp' = Op("append", FALSE, item, cur, TRUE, "put")
  /\ retried' = FALSE
  /\ UNCHANGED <<block_size, cache_size, cache, cvars, pvars, lvars>>

\* ------------------------------------------------------------- reader
\* a faulty Failed: the entries a failure leaves empty are filled with an empty block
Failed_poisoning(c, io, err) ==
  [ok |-> FALSE, block |-> <<>>, io |-> io, err |-> err,
   cache |-> [i \in DOMAIN c |-> IF c[i].v.some THEN c[i] ELSE [k |-> c[i].k, v |-> Some(<<>>)]]]

\* fetch_block returns early with an error: the cache stays as it is by then
Failed(c, io, err) == [ok |-> FALSE, cache |-> c, block |-> <<>>, io |-> io, err |-> err]

\* S3BlockReader::fetch_block: the cache after the call and the block, if any.
\* The entry is created (or moved to the front) before anything can fail, and
\* is filled only after the object was fetched and decompressed
fetch_block(c, block_id, objs, get_ok, bs, cap) ==
  LET c1 == get_or_insert(c, block_id, None, cap)
      block == LruValue(c1, block_id)
      key == block_key(block_id)
  IN IF block.some
     THEN [ok |-> TRUE, cache |-> c1, block |-> block.val, io |-> FALSE, err |-> ""]
     ELSE IF ~get_ok THEN Failed(c1, TRUE, "transport")
     ELSE IF key \notin DOMAIN objs THEN Failed(c1, TRUE, "no such key")
     ELSE LET d == decompress_to_buffer(objs[key], bs) IN
          IF ~d.ok THEN Failed(c1, TRUE, "decompress")
          ELSE [ok |-> TRUE, block |-> d.bytes, io |-> TRUE, err |-> "",
                cache |-> LruReplace(c1, block_id, Some(d.bytes))]

\* the record of `block` at `offset`: a varint length, then that many bytes
read_record(block, offset) ==
  LET n == read_varint(block, offset) IN
  IF ~n.ok THEN [ok |-> FALSE, bytes |-> <<>>, err |-> "varint"]
  ELSE LET r == read_exact(block, n.next, n.value) IN
       [ok |-> r.ok, bytes |-> r.bytes, err |-> IF r.ok THEN "" ELSE "eof"]

\* the Locations a caller fetches: the ones append returned
FetchLocs == {appends[i].loc : i \in 1..Len(appends)}

\* how the get_object of a fetch may end; a fetch of a block the cache holds
\* sends none
FetchOutcomes(block_id) ==
  IF block_id \in LruKeys(cache) /\ LruValue(cache, block_id).some THEN {TRUE} ELSE BOOLEAN

\* S3BlockReader::fetch
fetch(loc) ==
  \E get_ok \in FetchOutcomes(loc.block_id) :
    \E b \in {fetch_block(cache, loc.block_id, bucket, get_ok, block_size, cache_size)} :
      \E r \in {IF b.ok THEN read_record(b.block, loc.offset)
                ELSE [ok |-> FALSE, bytes |-> <<>>, err |-> b.err]} :
        /\ cache' = b.cache
        /\ lastOp' = Op("fetch", r.ok, r.bytes, loc, b.io, r.err)
        /\ retried' = (loc.block_id \in LruKeys(cache) /\ ~LruValue(cache, loc.block_id).some)
        /\ UNCHANGED <<block_size, buf, cur, bucket, cache_size, puts, appends, cvars, pvars, lvars, dvars>>

\* ------------------------------------------------------------- Caching
\* the keys callers use
Keys == {<<"a">>, <<"b">>, <<"c">>}

\* OnceCell<Option<Vec<u8>>>: empty, or holding the outcome of a get
Empty == [set |-> FALSE, got |-> None]
Holding(outcome) == [set |-> TRUE, got |-> outcome]

\* a call on Caching: its name, its key, Ok or Err, what it returned (for put:
\* what it was given), whether it reached the underlying store, and the Cow
\* variant of the bytes returned ("" when no bytes are returned)
Call(op, key, ok, ret, reached, cow) ==
  [op |-> op, key |-> key, ok |-> ok, ret |-> ret, reached |-> reached, cow |-> cow]

\* Blobstore::with_caching
CachingNew(cap) ==
  /\ capacity = cap
  /\ entries = <<>>

CachingInit ==
  /\ \E cap \in 1..MaxCapacity : CachingNew(cap)
  /\ underlying = <<>>
  /\ fetches = <<>>
  /\ gets = <<>>
  /\ nputs = 0
  /\ asked = {}
  /\ fresh = {}
  /\ lastCall = Call("new", <<>>, TRUE, None, FALSE, "")

\* a decorator that is built and not used
CachingIdle ==
  /\ CachingNew(1)
  /\ underlying = <<>>
  /\ fetches = <<>>
  /\ gets = <<>>
  /\ nputs = 0
  /\ asked = {}
  /\ fresh = {}
  /\ lastCall = Call("new", <<>>, TRUE, None, FALSE, "")

\* a faulty underlying_get: the store never finds a key
underlying_get_nothing(blobs, key) == None

\* get of the underlying store: None for a key it does not hold
underlying_get(blobs, key) == IF key \in DOMAIN blobs THEN Some(blobs[key]) ELSE None

\* a faulty cell_get: a cell holding None counts as empty
cell_get_some_only(cell) == IF cell.set /\ cell.got.some THEN Holding(cell.got) ELSE Empty

\* OnceCell::get: what the cell holds, if it has been initialised
cell_get(cell) == cell

\* a faulty Cow_Borrowed: the bytes are copied out of the entry
Cow_Owned(outcome) == IF outcome.some THEN "Owned" ELSE ""

\* .as_ref().map(|v| Cow::Borrowed(v.as_slice())): a view of the bytes the entry
\* holds; None carries no bytes
Cow_Borrowed(outcome) == IF outcome.some THEN "Borrowed" ELSE ""

\* how a get of the underlying store may end: with an error while fewer than
\* MaxGetErrors gets have failed
GetOutcomes ==
  IF Cardinality({i \in 1..Len(gets) : ~gets[i].ok}) < MaxGetErrors THEN BOOLEAN ELSE {TRUE}

\* a faulty get: an error of the store is recorded as the outcome None
get_caching_errors(c, key, blobs, cap, get_ok) ==
  LET c1 == get_or_insert(c, key, Empty, cap)
      cell == cell_get(LruValue(c1, key))
      v == underlying_get(blobs, key)
  IN IF cell.set
     THEN [entries |-> c1, call |-> Call("get", key, TRUE, cell.got, FALSE, Cow_Borrowed(cell.got))]
     ELSE IF get_ok
     THEN [entries |-> LruReplace(c1, key, Holding(v)),
           call |-> Call("get", key, TRUE, v, TRUE, Cow_Borrowed(v))]
     ELSE [entries |-> LruReplace(c1, key, Holding(None)),
           call |-> Call("get", key, FALSE, None, TRUE, "")]

\* Caching::get on the cache c over the store blobs: the entry is created (or
\* moved to the front) first; a cell that holds an outcome answers the call;
\* otherwise the underlying store is asked (get_ok: how that ends), and an error
\* leaves the entry in place with its cell empty
get(c, key, blobs, cap, get_ok) ==
  LET c1 == get_or_insert(c, key, Empty, cap)
      cell == cell_get(LruValue(c1, key))
      v == underlying_get(blobs, key)
  IN IF cell.set
     THEN [entries |-> c1, call |-> Call("get", key, TRUE, cell.got, FALSE, Cow_Borrowed(cell.got))]
     ELSE IF get_ok
     THEN [entries |-> LruReplace(c1, key, Holding(v)),
           call |-> Call("get", key, TRUE, v, TRUE, Cow_Borrowed(v))]
     ELSE [entries |-> c1, call |-> Call("get", key, FALSE, None, TRUE, "")]

\* a call of Caching::get
caching_get(key) ==
  /\ Len(gets) < MaxGets
  /\ \E get_ok \in GetOutcomes :
       \E r \in {get(entries, key, underlying, capacity, get_ok)} :
         /\ entries' = r.entries
         /\ lastCall' = r.call
         /\ fetches' = IF r.call.reached THEN Append(fetches, key) ELSE fetches
         /\ gets' = Append(gets, [key |-> key, ok |-> r.call.ok])
  /\ asked' = asked \cup {key}
  /\ UNCHANGED <<capacity, underlying, nputs, fresh, bvars, pvars, lvars, dvars>>

\* a call of Caching::get that the underlying store answers, in a history that
\* keeps no log of its calls
caching_get_unlogged(key) ==
  /\ \E r \in {get(entries, key, underlying, capacity, TRUE)} :
       /\ entries' = r.entries
       /\ lastCall' = r.call
  /\ asked' = asked \cup {key}
  /\ UNCHANGED <<capacity, underlying, nputs, fresh, fetches, gets, bvars, pvars, lvars, dvars>>

\* Caching::put: delegated; the cache is not looked at
caching_put(key, blob) ==
  /\ nputs < MaxPuts
  /\ nputs' = nputs + 1
  /\ \E put_ok \in BOOLEAN :
       /\ underlying' = IF put_ok THEN put_object(underlying, key, blob) ELSE underlying
       /\ fresh' = IF ~put_ok THEN fresh
                   ELSE IF key \in asked THEN fresh \ {key}
                   ELSE fresh \cup {key}
       /\ lastCall' = Call("put", key, put_ok, Some(blob), TRUE, "")
  /\ UNCHANGED <<capacity, entries, fetches, gets, asked, bvars, pvars, lvars, dvars>>

\* ------------------------------------------------------------- Prefixed
\* the prefixes decorators are built with
PrefixNames == {<<"x">>, <<"y">>}

\* the keys callers of the decorators use
PrefixedKeys == {<<"a">>, <<"b">>}

\* a call as the store under the decorators sees it, and what the store answered
StoreCall(op, key, blob, ok, ret) ==
  [op |-> op, key |-> key, blob |-> blob, ok |-> ok, ret |-> ret]

\* what the store answers to a get: its blob or None, or an error
store_get(blobs, key, get_ok) == IF get_ok THEN underlying_get(blobs, key) ELSE None

\* a call on the outermost decorator: its number, name, key, the blob given to
\* put, Ok or Err, and what get returned
PCall(n, op, key, blob, ok, ret) ==
  [n |-> n, op |-> op, key |-> key, blob |-> blob, ok |-> ok, ret |-> ret]

\* a store with no decorator on it yet
PrefixedInit ==
  /\ layers = <<>>
  /\ store = <<>>
  /\ observed = <<>>
  /\ pcall = PCall(0, "new", <<>>, <<>>, TRUE, None)

PrefixedIdle == PrefixedInit

\* Prefixed::get through the decorators ls, outermost last: each decorator
\* rewrites the key and delegates once; the store answers (get_ok) or fails
RECURSIVE prefixed_get(_, _, _, _)
prefixed_get(ls, key, blobs, get_ok) ==
  IF ls = <<>>
  THEN [reached |-> <<StoreCall("get", key, <<>>, get_ok, store_get(blobs, key, get_ok))>>,
        ok |-> get_ok,
        ret |-> store_get(blobs, key, get_ok)]
  ELSE prefixed_get(SubSeq(ls, 1, Len(ls) - 1), format(ls[Len(ls)], key), blobs, get_ok)

\* Prefixed::put through the decorators ls, outermost last
RECURSIVE prefixed_put(_, _, _, _, _)
prefixed_put(ls, key, blob, blobs, put_ok) ==
  IF ls = <<>>
  THEN [reached |-> <<StoreCall("put", key, blob, put_ok, None)>>,
        ok |-> put_ok,
        store |-> IF put_ok THEN put_object(blobs, key, blob) ELSE blobs]
  ELSE prefixed_put(SubSeq(ls, 1, Len(ls) - 1), format(ls[Len(ls)], key), blob, blobs, put_ok)

\* Blobstore::with_prefix: the stack so far becomes the underlying store of a new
\* Prefixed; the builder is called before the stack is used
with_prefix(p) ==
  /\ Len(layers) < MaxLayers
  /\ pcall.n = 0
  /\ layers' = Append(layers, p)
  /\ UNCHANGED <<store, observed, pcall, bvars, cvars, lvars, dvars>>

\* get on the outermost decorator
stack_get(key) ==
  /\ pcall.n < MaxCalls
  /\ \E get_ok \in BOOLEAN :
       \E r \in {prefixed_get(layers, key, store, get_ok)} :
         /\ observed' = observed \o r.reached
         /\ pcall' = PCall(pcall.n + 1, "get", key, <<>>, r.ok, r.ret)
  /\ UNCHANGED <<layers, store, bvars, cvars, lvars, dvars>>

\* put on the outermost decorator
stack_put(key, blob) ==
  /\ pcall.n < MaxCalls
  /\ \E put_ok \in BOOLEAN :
       \E r \in {prefixed_put(layers, key, blob, store, put_ok)} :
         /\ observed' = observed \o r.reached
         /\ store' = r.store
         /\ pcall' = PCall(pcall.n + 1, "put", key, blob, r.ok, None)
  /\ UNCHANGED <<layers, bvars, cvars, lvars, dvars>>

\* ------------------------------------------------------------- Location codec
\* the values block_id and offset take: one-byte and two-byte varints, and the
\* first three-byte one
LocFields == (0..MaxField) \cup {16383, 16384}

\* the byte values of the strings handed to decode: with and without the
\* continuation bit
WireBytes == {0, 1, 128, 129}

RECURSIVE ByteStrings(_)
ByteStrings(n) ==
  IF n = 0 THEN {<<>>}
  ELSE ByteStrings(n - 1) \cup {Append(b, x) : b \in {y \in ByteStrings(n - 1) : Len(y) = n - 1}, x \in WireBytes}

WireInputs == ByteStrings(MaxWireLen)

\* vec![0; n]
zeros(n) == [i \in 1..n |-> 0]

\* n.encode_var(dst): the varint is written at the start of dst; a dst shorter
\* than the varint is a panic
encode_var_into(dst, n) ==
  LET v == encode_var(n) IN
  IF Len(v) > Len(dst) THEN [panic |-> TRUE, bytes |-> dst]
  ELSE [panic |-> FALSE, bytes |-> v \o SubSeq(dst, Len(v) + 1, Len(dst))]

\* Location::encode
encode(l) ==
  LET a == required_space(l.block_id)
      b == required_space(l.offset)
      buf0 == zeros(a + b)
      first == encode_var_into(SubSeq(buf0, 1, a), l.block_id)
      second == encode_var_into(SubSeq(buf0, a + 1, a + b), l.offset)
  IN [panic |-> first.panic \/ second.panic, bytes |-> first.bytes \o second.bytes]

\* Location::decode: two varints read from the start of the bytes; what follows
\* them is not looked at
decode(bytes) ==
  LET r1 == read_varint(bytes, 0)
      r2 == read_varint(bytes, r1.next)
  IN IF ~r1.ok \/ ~r2.ok THEN [ok |-> FALSE, loc |-> Location(0, 0)]
     ELSE [ok |-> TRUE, loc |-> Location(r1.value, r2.value)]

NotDecoded == [ok |-> FALSE, loc |-> Location(0, 0)]

\* a Location to encode, or bytes to decode
CodecInit ==
  /\ decoded = NotDecoded
  /\ \/ /\ pc = "new"
        /\ arg \in {Location(b, o) : b \in LocFields, o \in LocFields}
        /\ wire = <<>>
     \/ /\ pc = "given"
        /\ arg = Location(0, 0)
        /\ wire \in WireInputs

\* no Location is encoded or decoded
CodecIdle ==
  /\ arg = Location(0, 0)
  /\ wire = <<>>
  /\ decoded = NotDecoded
  /\ pc = "idle"

\* a call of Location::encode
location_encode ==
  /\ pc = "new"
  /\ \E r \in {encode(arg)} :
       IF r.panic THEN wire' = wire /\ pc' = "panicked"
       ELSE wire' = r.bytes /\ pc' = "encoded"
  /\ UNCHANGED <<arg, decoded, bvars, cvars, pvars, dvars>>

\* a call of Location::decode, on the bytes encode returned or on bytes given
location_decode ==
  /\ pc \in {"encoded", "given"}
  /\ decoded' = decode(wire)
  /\ pc' = IF pc = "encoded" THEN "round trip" ELSE "decoded"
  /\ UNCHANGED <<arg, wire, bvars, cvars, pvars, dvars>>

\* ------------------------------------------------------------- ingest driver
\* no driver runs
EtlIdle == etl_pc = "idle"

\* args.prefix of the driver; the writer's prefix stands for "{args.prefix}/block"
args_prefix == <<"r">>

\* format!("{}/index/default.sst", args.prefix)
index_key == args_prefix \o <<"/", "index", "/", "default.sst">>

\* the index file: for every record put into the local db, in order, the
\* encoded Location append returned for it
index_body(log) == [sst |-> [i \in 1..Len(log) |-> encode(log[i].loc).bytes]]

\* a faulty question_mark: the error is dropped and main goes on
question_mark_ignored(ok, pc_next) == pc_next

\* the ? operator of main: an Err makes main return at once
question_mark(ok, pc_next) == IF ok THEN pc_next ELSE "failed"

\* one turn of the loop over the input lines: the record is appended, then
\* parsed and put into the local db (local_ok: whether those steps succeed)
etl_append(item) ==
  /\ etl_pc = "lines"
  /\ append(item)
  /\ \E local_ok \in BOOLEAN :
       etl_pc' = question_mark(lastOp'.ok, question_mark(local_ok, "lines"))

\* the input has ended: block_writer.flush().await?
etl_flush ==
  /\ etl_pc = "lines"
  /\ flush
  /\ etl_pc' = question_mark(lastOp'.ok, "flushed")

\* the index file is built from the local db and put under index_key
etl_put_index ==
  /\ etl_pc = "flushed"
  /\ \E put_ok \in BOOLEAN :
       /\ bucket' = IF put_ok THEN put_object(bucket, index_key, index_body(appends)) ELSE bucket
       /\ etl_pc' = IF put_ok THEN "published" ELSE "index failed"
  /\ UNCHANGED <<block_size, buf, cur, cache_size, cache, puts, appends, lastOp, retried,
                 cvars, pvars, lvars>>

\* ------------------------------------------------------------- specifications
Init == BlockInit /\ CachingIdle /\ PrefixedIdle /\ CodecIdle /\ EtlIdle

\* the block layer: one writer and one reader on the same bucket and prefix
Next ==
  \/ (\E item \in Items : append(item)) /\ UNCHANGED dvars
  \/ flush /\ UNCHANGED dvars
  \/ \E loc \in FetchLocs : fetch(loc)

Spec == Init /\ [][Next]_vars

\* the writer alone
WriterInit == BlockInit /\ cache_size = 1 /\ CachingIdle /\ PrefixedIdle /\ CodecIdle /\ EtlIdle

WriterNext ==
  \/ (\E item \in Items : append(item)) /\ UNCHANGED dvars
  \/ flush /\ UNCHANGED dvars

SpecWriter == WriterInit /\ [][WriterNext]_vars

\* the records appended while the reader is looked at: an empty one, one that
\* ends with a byte that has the continuation bit, and one that ends with a
\* byte that reads as a length of 1
ReaderItems == {<<>>, <<128>>, <<1>>, <<128, 1>>}

\* the Locations a caller may hand to fetch, valid or not: every offset up to
\* block_size in every block up to the one the writer is filling
ProbeLocs == {Location(b, o) : b \in 0..cur.block_id, o \in 0..block_size}

\* the Locations a caller holds: the ones append returned, and the one the next
\* append will return
HeldLocs == FetchLocs \cup {cur}

\* a writer whose puts all succeed and that appends one record less than
\* MaxAppends
QuietWriterNext ==
  \/ /\ Len(appends) < MaxAppends - 1
     /\ \E item \in ReaderItems : append(item)
     /\ \A i \in 1..Len(puts') : puts'[i].ok
     /\ UNCHANGED dvars
  \/ flush /\ (\A i \in 1..Len(puts') : puts'[i].ok) /\ UNCHANGED dvars

\* the reader and its cache, next to that writer, with block_size one below
\* MaxBlockSize
ReaderInit == Init /\ block_size = MaxBlockSize - 1

ReaderNext ==
  \/ QuietWriterNext
  \/ \E loc \in HeldLocs : fetch(loc)

SpecReader == ReaderInit /\ [][ReaderNext]_vars

\* a reader with a cache of one block that is handed arbitrary Locations
ProbeInit == ReaderInit /\ cache_size = 1

ProbeNext ==
  \/ QuietWriterNext
  \/ \E loc \in ProbeLocs : fetch(loc)

SpecProbe == ProbeInit /\ [][ProbeNext]_vars

\* one Caching decorator over a store; the block layer is built and not used
CachingSpecInit ==
  /\ WriterNew(MaxBlockSize) /\ ReaderNew(1)
  /\ bucket = <<>>
  /\ puts = <<>>
  /\ appends = <<>>
  /\ lastOp = Op("new", TRUE, <<>>, Location(0, 0), FALSE, "")
  /\ retried = FALSE
  /\ CachingInit
  /\ PrefixedIdle
  /\ CodecIdle
  /\ EtlIdle

\* the block layer, built and not used, and no driver
BlockIdle ==
  /\ EtlIdle
  /\ WriterNew(MaxBlockSize) /\ ReaderNew(1)
  /\ bucket = <<>>
  /\ puts = <<>>
  /\ appends = <<>>
  /\ lastOp = Op("new", TRUE, <<>>, Location(0, 0), FALSE, "")
  /\ retried = FALSE

\* the blob the next put writes: every put writes a blob no earlier put wrote
NextBlob == <<nputs + 1>>

CachingNext ==
  \/ \E key \in Keys : caching_get(key)
  \/ \E key \in Keys : caching_put(key, NextBlob)

SpecCaching == CachingSpecInit /\ [][CachingNext]_vars

\* the same decorator under callers that never stop: every key stays hot (each
\* key is asked for again and again) and the underlying store answers
HotNext ==
  \/ \E key \in Keys : caching_get_unlogged(key)
  \/ \E key \in Keys : caching_put(key, NextBlob)

SpecHot ==
  /\ CachingSpecInit
  /\ [][HotNext]_vars
  /\ \A key \in Keys : WF_vars(caching_get_unlogged(key))

\* the ingest driver and its writer
EtlInit ==
  /\ BlockInit /\ cache_size = 1 /\ CachingIdle /\ PrefixedIdle /\ CodecIdle
  /\ etl_pc = "lines"

EtlNext ==
  \/ \E item \in Items : etl_append(item)
  \/ etl_flush
  \/ etl_put_index

SpecEtl == EtlInit /\ [][EtlNext]_vars

\* a stack of Prefixed decorators over a store
PrefixedNext ==
  \/ \E p \in PrefixNames : with_prefix(p)
  \/ \E key \in PrefixedKeys : stack_get(key)
  \/ \E key \in PrefixedKeys : stack_put(key, <<pcall.n + 1>>)

PrefixedSpecInit == BlockIdle /\ CachingIdle /\ CodecIdle /\ PrefixedInit

SpecPrefixed == PrefixedSpecInit /\ [][PrefixedNext]_vars

\* Location::encode and Location::decode
CodecNext ==
  \/ location_encode
  \/ location_decode

CodecSpecInit == BlockIdle /\ CachingIdle /\ PrefixedIdle /\ CodecInit

SpecCodec == CodecSpecInit /\ [][CodecNext]_vars

\* ------------------------------------------------------------- block layer claims
\* the wire form of one record: varint(len) || bytes
Frame(item) == encode_var(Len(item)) \o item

RECURSIVE FramesBefore(_, _, _)
\* total wire length of the appends before the i-th that were given block_id b
FramesBefore(log, i, b) ==
  IF i <= 1 THEN 0
  ELSE FramesBefore(log, i - 1, b)
       + (IF log[i - 1].loc.block_id = b THEN Len(Frame(log[i - 1].item)) ELSE 0)

AllPutsOk == \A i \in 1..Len(puts) : puts[i].ok

\* the last call was a fetch whose get_object, if it sent one, was answered
Fetched == lastOp.op = "fetch" /\ lastOp.err # "transport"

\* the appends that returned the Location just fetched
FetchedAppends == {i \in 1..Len(appends) : appends[i].loc = lastOp.loc}

\* C1: when every put succeeded and flush() has returned Ok after the last
\* append, fetch of the Location the i-th append returned gives the i-th record
C1_RoundTrip ==
  (Fetched /\ AllPutsOk /\ buf = <<>>) =>
    \A i \in FetchedAppends : lastOp.ok /\ lastOp.item = appends[i].item

\* C2: in any history, put failures included, once a block has been put
\* successfully after an append returned a Location, fetch of that Location gives
\* the record of that append and no other (stated for the records that fit a
\* block, which leaves the oversized records of C3 aside)
C2_ReturnedLocationsReadable ==
  Fetched =>
    \A i \in FetchedAppends :
      (appends[i].flushed /\ Len(Frame(appends[i].item)) <= block_size) =>
        (lastOp.ok /\ lastOp.item = appends[i].item)

\* C3: a record whose frame is longer than block_size is accepted, sits alone in
\* its block at offset 0, and after a successful flush fetch returns it
C3_OversizedRoundTrip ==
  (Fetched /\ AllPutsOk) =>
    \A i \in FetchedAppends :
      (appends[i].flushed /\ Len(Frame(appends[i].item)) > block_size) =>
        /\ appends[i].loc.offset = 0
        /\ \A j \in 1..Len(puts) :
             puts[j].block_id = appends[i].loc.block_id =>
               puts[j].body = compress(Frame(appends[i].item))
        /\ lastOp.ok
        /\ lastOp.item = appends[i].item

\* C4: a flush() called right after a flush() whose put failed sends the same
\* bytes again under the same block_id
C4_IdempotentFlushRetry ==
  [][(lastOp.op = "flush" /\ ~lastOp.ok /\ lastOp'.op = "flush") =>
       /\ Len(puts') = Len(puts) + 1
       /\ puts'[Len(puts')].block_id = puts[Len(puts)].block_id
       /\ puts'[Len(puts')].body = puts[Len(puts)].body]_vars

\* C5 as claimed: the block_ids of the puts sent are strictly ascending
C5_PutsStrictlyAscending ==
  \A i, j \in 1..Len(puts) : i < j => puts[i].block_id < puts[j].block_id

\* C5 as amended: the block_ids of the puts sent never descend, and every put
\* after one that succeeded has a larger block_id; only the block_id of a put
\* that failed is put again
C5_OkPutsStrictlyAscending ==
  \A i, j \in 1..Len(puts) :
    i < j =>
      /\ puts[i].block_id <= puts[j].block_id
      /\ puts[i].ok => puts[i].block_id < puts[j].block_id
      /\ (~puts[i].ok /\ j = i + 1) => puts[j].block_id = puts[i].block_id

\* a put failed, its block_id was put again with success, and a later block followed
C5_Witness ==
  \E i \in 1..Len(puts) :
    /\ i + 2 <= Len(puts)
    /\ ~puts[i].ok /\ puts[i + 1].ok /\ puts[i + 2].ok
    /\ puts[i + 1].block_id = puts[i].block_id
    /\ puts[i + 2].block_id = puts[i].block_id + 1

\* C6: the Location append returns has the block_id the writer is on and, as
\* offset, the total wire length (varint prefix + payload) of the records appended
\* to that block_id before; after the call cur.offset is that offset plus the wire
\* length of the record just appended
C6_AppendReturnsPreWriteLocation ==
  /\ \A i \in 1..Len(appends) :
       appends[i].loc.offset = FramesBefore(appends, i, appends[i].loc.block_id)
  /\ (lastOp.op = "append" /\ lastOp.ok) =>
       /\ lastOp.loc = appends[Len(appends)].loc
       /\ lastOp.item = appends[Len(appends)].item
       /\ cur = Location(lastOp.loc.block_id, lastOp.loc.offset + Len(Frame(lastOp.item)))

\* three records in one block: the third Location is past the first two frames
C6_Witness ==
  /\ lastOp.op = "append" /\ lastOp.ok
  /\ Len(appends) = 3
  /\ appends[1].loc = Location(0, 0)
  /\ appends[2].loc = Location(0, 1)
  /\ appends[3].loc = Location(0, 2)
  /\ cur = Location(0, 3)

\* C7: append sends a put exactly when cur.offset + wire length > block_size and
\* buf is not empty, and then it sends buf under cur.block_id; a record that fills
\* the block to exactly block_size is written without a put, at cur; an append
\* that rolled over returns (block_id + 1, 0)
C7_RolloverRule ==
  [][lastOp'.op = "append" =>
       LET over == cur.offset + Len(Frame(lastOp'.item)) > block_size
           put == Len(puts') = Len(puts) + 1
       IN /\ put \/ puts' = puts
          /\ put <=> (over /\ buf # <<>>)
          /\ put => /\ puts'[Len(puts')].block_id = cur.block_id
                    /\ puts'[Len(puts')].body = compress(buf)
                    /\ SubSeq(puts', 1, Len(puts)) = puts
          /\ (put /\ lastOp'.ok) => lastOp'.loc = Location(cur.block_id + 1, 0)
          /\ ~put => (lastOp'.ok /\ lastOp'.loc = cur)]_vars

\* block_size 3: frames of 2 and 1 bytes fill block 0 exactly, the third append
\* rolls over
C7_Witness ==
  /\ block_size = 3
  /\ lastOp.op = "append" /\ lastOp.ok /\ lastOp.io
  /\ Len(appends) = 3
  /\ appends[1].loc = Location(0, 0)
  /\ appends[2].loc = Location(0, 2)
  /\ Len(Frame(appends[2].item)) = 1
  /\ appends[3].loc = Location(1, 0)
  /\ Len(puts) = 1

\* C8: flush() with an empty buf sends no put, returns Ok and leaves buf, cur and
\* the bucket as they were; no put ever carries an empty block; of two flush()
\* calls in a row the second sends nothing
C8_FlushEmptyIsNoop ==
  /\ [][(lastOp'.op = "flush" /\ buf = <<>>) =>
          (lastOp'.ok /\ ~lastOp'.io /\ UNCHANGED <<buf, cur, bucket, puts>>)]_vars
  /\ [](\A i \in 1..Len(puts) : puts[i].body # compress(<<>>))
  /\ [][(lastOp.op = "flush" /\ lastOp'.op = "flush") => puts' = puts]_vars

\* a flush() on an empty buf, after a block was published
C8_Witness ==
  /\ lastOp.op = "flush" /\ lastOp.ok /\ ~lastOp.io
  /\ buf = <<>>
  /\ Len(puts) >= 1

\* C18: between writer calls cur.offset is the length of buf, whether the
\* calls succeeded or failed; a flush that put a block successfully leaves buf
\* empty and cur at (block_id + 1, 0)
C18_CurOffsetIsBufLen ==
  /\ [](cur.offset = Len(buf))
  /\ [][(lastOp'.op = "flush" /\ lastOp'.ok /\ Len(puts') = Len(puts) + 1) =>
          (buf' = <<>> /\ cur' = Location(cur.block_id + 1, 0))]_vars

\* the number of framed records a block or buffer holds
RECURSIVE RecordsIn(_)
RecordsIn(b) ==
  IF b = <<>> THEN 0
  ELSE LET n == read_varint(b, 0) IN 1 + RecordsIn(SubSeq(b, n.next + n.value + 1, Len(b)))

\* C19: every block put is at most block_size bytes long before compression
\* unless it holds exactly one record, and buf is never longer than block_size
\* while it holds two or more records
C19_BlockSizeDiscipline ==
  /\ \A i \in 1..Len(puts) :
       Len(puts[i].body.zstd) <= block_size \/ RecordsIn(puts[i].body.zstd) = 1
  /\ RecordsIn(buf) >= 2 => Len(buf) <= block_size

\* block_size 2: two empty records fill block 0, a record of two bytes is put
\* alone as block 1
C19_Witness ==
  /\ block_size = 2
  /\ Len(puts) = 2
  /\ puts[1].ok /\ puts[2].ok
  /\ Len(puts[1].body.zstd) = 2 /\ RecordsIn(puts[1].body.zstd) = 2
  /\ Len(puts[2].body.zstd) = 3 /\ RecordsIn(puts[2].body.zstd) = 1

\* the block is in the bucket and fits the buffer the reader decompresses into
Retrievable(block_id) ==
  /\ block_key(block_id) \in DOMAIN bucket
  /\ Len(bucket[block_key(block_id)].zstd) <= block_size

\* C16: whatever fetches have failed before, a fetch whose get_object, if it
\* sends one, is answered returns the record of every append that returned the
\* Location fetched, once the block of that Location has been put and can be
\* retrieved
C16_FailedFetchDoesNotPoison ==
  Fetched =>
    \A i \in FetchedAppends :
      (appends[i].flushed /\ Retrievable(lastOp.loc.block_id)) =>
        (lastOp.ok /\ lastOp.item = appends[i].item)

\* a fetch of a block whose earlier fetch failed: the cache entry the failure
\* left empty is filled from the bucket and the record is returned
C16_Witness ==
  /\ retried
  /\ lastOp.op = "fetch" /\ lastOp.ok /\ lastOp.io
  /\ \E i \in FetchedAppends : lastOp.item = appends[i].item
  /\ LruValue(cache, lastOp.loc.block_id).some

\* ------------------------------------------------------------- Caching claims
\* the keys get was called with, in order
GetKeys == [i \in 1..Len(gets) |-> gets[i].key]

AllGetsOk == \A i \in 1..Len(gets) : gets[i].ok

\* the cache holds an outcome for the key
Cached(key) == key \in LruKeys(entries) /\ LruValue(entries, key).set

\* the position in `gets` of the last get of the key, 0 if there was none
LastUse(key) ==
  LET uses == {i \in 1..Len(gets) : gets[i].key = key}
  IN IF uses = {} THEN 0 ELSE CHOOSE i \in uses : \A j \in uses : j <= i

\* the key in the cache whose last get, hit or miss, is the oldest
LeastRecentlyUsed ==
  CHOOSE k \in LruKeys(entries) : \A o \in LruKeys(entries) : LastUse(k) <= LastUse(o)

\* C9: a get of a key whose outcome is in the cache returns that outcome, None
\* included, and does not reach the underlying store; get x, get x, get y reaches
\* the underlying store for x and y only
C9_HitPreventsFetch ==
  /\ [][Len(gets') = Len(gets) + 1 =>
          LET key == gets'[Len(gets')].key IN
          Cached(key) =>
            /\ fetches' = fetches
            /\ lastCall'.op = "get" /\ lastCall'.key = key
            /\ lastCall'.ok /\ ~lastCall'.reached
            /\ lastCall'.ret = LruValue(entries, key).got]_vars
  /\ [](\A x, y \in Keys :
          (x # y /\ GetKeys = <<x, x, y>> /\ AllGetsOk) => fetches = <<x, y>>)

\* capacity 1, nothing stored: get a, get a, get b; the second get a is answered
\* by the cached None
C9_Witness ==
  /\ capacity = 1
  /\ underlying = <<>>
  /\ GetKeys = << <<"a">>, <<"a">>, <<"b">> >>
  /\ AllGetsOk
  /\ fetches = << <<"a">>, <<"b">> >>
  /\ lastCall.ret = None

\* C10: a get leaves the cached keys as they were when its key is among them,
\* adds its key while the cache is not full, and otherwise replaces the least
\* recently used key, hits and misses both counting as uses; with capacity 1,
\* get x, y, x reaches the underlying store for x, y, x; with capacity 2,
\* get x, y, x, z, x reaches it for x, y, z only
C10_LruEviction ==
  /\ [][Len(gets') = Len(gets) + 1 =>
          LET key == gets'[Len(gets')].key IN
          /\ Len(entries') = Cardinality(LruKeys(entries'))
          /\ LruKeys(entries') =
               IF key \in LruKeys(entries) THEN LruKeys(entries)
               ELSE IF Len(entries) < capacity THEN LruKeys(entries) \cup {key}
               ELSE (LruKeys(entries) \ {LeastRecentlyUsed}) \cup {key}]_vars
  /\ [](\A x, y \in Keys :
          (x # y /\ capacity = 1 /\ GetKeys = <<x, y, x>> /\ AllGetsOk)
            => fetches = <<x, y, x>>)
  /\ [](\A x, y, z \in Keys :
          (x # y /\ x # z /\ y # z /\ capacity = 2 /\ GetKeys = <<x, y, x, z, x>> /\ AllGetsOk)
            => fetches = <<x, y, z>>)

\* capacity 2: get a, b, a, c, a; c evicted b, the last get of a is a hit
C10_Witness ==
  /\ capacity = 2
  /\ GetKeys = << <<"a">>, <<"b">>, <<"a">>, <<"c">>, <<"a">> >>
  /\ AllGetsOk
  /\ fetches = << <<"a">>, <<"b">>, <<"c">> >>
  /\ LruKeys(entries) = {<<"a">>, <<"c">>}

\* C11: while a key's last successful put was made before any get of the key,
\* every get of the key that returns Ok returns the bytes of that put, whether
\* the underlying store or the cache answers
C11_PutThenGet ==
  (lastCall.op = "get" /\ lastCall.ok /\ lastCall.key \in fresh) =>
    lastCall.ret = Some(underlying[lastCall.key])

\* put a, get a, get a: the first get reaches the store, the second is answered
\* by the cache, both return the blob put
C11_Witness ==
  /\ fresh = {<<"a">>}
  /\ GetKeys = << <<"a">>, <<"a">> >>
  /\ AllGetsOk
  /\ fetches = << <<"a">> >>
  /\ lastCall.op = "get" /\ ~lastCall.reached
  /\ lastCall.ret = Some(<<1>>)

\* a put of the key has just succeeded while the cache held an outcome for it
PutOnCached(key) ==
  /\ lastCall.op = "put" /\ lastCall.ok /\ lastCall.key = key
  /\ Cached(key)

\* a get of the key has just returned the bytes the store holds for it
GotStored(key) ==
  /\ lastCall.op = "get" /\ lastCall.ok /\ lastCall.key = key
  /\ lastCall.ret = underlying_get(underlying, key)

\* C12: once a put of a key has succeeded while the cache held an outcome for
\* the key, some later get of the key returns the bytes put, when the key is
\* asked for again and again
C12_CoherentAfterPut ==
  \A key \in Keys : PutOnCached(key) ~> GotStored(key)

C13_PrefixComposition ==
  [][(pcall'.n = pcall.n + 1 /\ Len(layers) = 2) =>
       LET full == layers[1] \o <<"/">> \o layers[2] \o <<"/">> \o pcall'.key
           last == observed'[Len(observed')]
       IN /\ Len(observed') = Len(observed) + 1
          /\ SubSeq(observed', 1, Len(observed)) = observed
          /\ last.op = pcall'.op
          /\ last.key = full
          /\ last.blob = pcall'.blob
          /\ pcall'.ok = last.ok
          /\ pcall'.ret = last.ret]_vars

\* with_prefix(x).with_prefix(y): put a, then get a; the store saw x/y/a twice
\* and the get returned the blob put
C13_Witness ==
  /\ layers = << <<"x">>, <<"y">> >>
  /\ Len(observed) = 2
  /\ observed[1].op = "put" /\ observed[1].ok
  /\ observed[1].key = <<"x", "/", "y", "/", "a">>
  /\ observed[2].op = "get"
  /\ observed[2].key = <<"x", "/", "y", "/", "a">>
  /\ pcall.op = "get" /\ pcall.key = <<"a">>
  /\ pcall.ok /\ pcall.ret = Some(<<1>>)

\* ------------------------------------------------------------- Location claims
\* C14: encode returns varint(block_id) followed by varint(offset), and decode
\* of those bytes succeeds and returns the Location that was encoded
C14_CodecRoundTrip ==
  /\ pc # "panicked"
  /\ pc \in {"encoded", "round trip"} =>
       wire = encode_var(arg.block_id) \o encode_var(arg.offset)
  /\ pc = "round trip" => (decoded.ok /\ decoded.loc = arg)

\* a two-byte block_id and a three-byte offset
C14_Witness ==
  /\ pc = "round trip"
  /\ arg = Location(128, 16384)
  /\ wire = <<128, 1, 128, 128, 1>>
  /\ decoded.ok /\ decoded.loc = Location(128, 16384)

\* the index of the last byte of the varint that starts at index i of b (the
\* first byte from i on without the continuation bit), 0 if b ends before it
VarintEnd(b, i) ==
  LET ends == {j \in i..Len(b) : b[j] < 128}
  IN IF ends = {} THEN 0 ELSE CHOOSE j \in ends : \A k \in ends : j <= k

\* b ends before two complete varints
EndsEarly(b) == VarintEnd(b, 1) = 0 \/ VarintEnd(b, VarintEnd(b, 1) + 1) = 0

\* b holds two complete varints and more bytes after them
HasTrailingBytes(b) == ~EndsEarly(b) /\ VarintEnd(b, VarintEnd(b, 1) + 1) < Len(b)

\* C15: decode returns an error for bytes that go on after the two varints and
\* for bytes that end before two complete varints
C15_DecodeRejectsMalformed ==
  (pc = "decoded" /\ (HasTrailingBytes(wire) \/ EndsEarly(wire))) => ~decoded.ok

\* ------------------------------------------------------------- fetch claims
\* the value of the varint that occupies b[i..e]
RECURSIVE VarintValue(_, _, _)
VarintValue(b, i, e) ==
  IF i >= e THEN b[e] ELSE (b[i] - 128) + 128 * VarintValue(b, i + 1, e)

\* the bytes of the block the last call names, as the bucket holds them
StoredBlock == bucket[block_key(lastOp.loc.block_id)].zstd

BlockMissing == block_key(lastOp.loc.block_id) \notin DOMAIN bucket

\* the index of the last byte of the length varint at the offset the last call
\* names, 0 if the block ends before it
LengthEnd == VarintEnd(StoredBlock, lastOp.loc.offset + 1)

\* the length that varint declares
DeclaredLength == VarintValue(StoredBlock, lastOp.loc.offset + 1, LengthEnd)

\* C20: fetch returns an error when the block is not in the bucket, when the
\* offset is at or past the end of the block, when the block ends inside the
\* length varint, and when fewer bytes than the varint declares follow it; when
\* it returns a record, the record is exactly the declared number of bytes that
\* follow the varint in the block
C20_FetchRejectsIncompleteRecord ==
  lastOp.op = "fetch" =>
    /\ BlockMissing => ~lastOp.ok
    /\ ~BlockMissing =>
         /\ lastOp.loc.offset >= Len(StoredBlock) => ~lastOp.ok
         /\ LengthEnd = 0 => ~lastOp.ok
         /\ (LengthEnd # 0 /\ LengthEnd + DeclaredLength > Len(StoredBlock)) => ~lastOp.ok
    /\ lastOp.ok =>
         /\ ~BlockMissing
         /\ LengthEnd # 0
         /\ lastOp.item = SubSeq(StoredBlock, LengthEnd + 1, LengthEnd + DeclaredLength)
         /\ Len(lastOp.item) = DeclaredLength

\* the block holds the record <<1>> as <<1, 1>>; a fetch at offset 1 reads the
\* length 1 and finds no byte after it
C20_Witness ==
  /\ lastOp.op = "fetch" /\ ~lastOp.ok /\ lastOp.err = "eof"
  /\ ~BlockMissing
  /\ StoredBlock = <<1, 1>>
  /\ lastOp.loc.offset = 1

\* the cache c holds the bytes of the block
CachedIn(c, block_id) == block_id \in LruKeys(c) /\ LruValue(c, block_id).some

BlockCached(block_id) == CachedIn(cache, block_id)

\* C21: a fetch sends a get_object only for a block the cache does not hold (it
\* was never fetched, it was evicted, or its fetch failed), and a fetch that
\* succeeds leaves the block in the cache, so that of two successful fetches of
\* one block_id in a row, at whatever offsets, the second sends none; a block
\* leaves the cache only in a fetch of another block
C21_BlockFetchedOnce ==
  /\ [][lastOp'.op = "fetch" =>
          /\ lastOp'.io <=> ~BlockCached(lastOp'.loc.block_id)
          /\ lastOp'.ok => CachedIn(cache', lastOp'.loc.block_id)]_vars
  /\ [][(lastOp.op = "fetch" /\ lastOp.ok /\ lastOp'.op = "fetch"
          /\ lastOp'.loc.block_id = lastOp.loc.block_id) => ~lastOp'.io]_vars
  /\ [][\A b \in LruKeys(cache) :
          b \notin LruKeys(cache') =>
            (lastOp'.op = "fetch" /\ lastOp'.loc.block_id # b)]_vars

\* block 0 holds two empty records; the record at offset 1 is fetched from the
\* cached block, without a get_object
C21_Witness ==
  /\ lastOp.op = "fetch" /\ lastOp.ok /\ ~lastOp.io
  /\ lastOp.loc = Location(0, 1)
  /\ bucket[block_key(0)] = compress(<<0, 0>>)
  /\ BlockCached(0)

\* the Locations the index file in the bucket holds
IndexLocations ==
  {decode(bucket[index_key].sst[i]).loc : i \in DOMAIN bucket[index_key].sst}

\* the put of block block_id has completed
BlockPut(block_id) ==
  /\ block_key(block_id) \in DOMAIN bucket
  /\ \E j \in 1..Len(puts) : puts[j].ok /\ puts[j].block_id = block_id

\* C22: the driver puts the index file only after every append and the final
\* flush returned Ok: when main has passed the flush, no put has failed,
\* nothing is left in the buffer and the block of every Location handed out
\* has been put; an index file in the bucket means main published it, holds
\* exactly the Locations append returned, and each of them names a block whose
\* put completed; after any failed append or flush there is no index file
C22_IndexAfterBlocks ==
  /\ etl_pc \in {"flushed", "published", "index failed"} =>
       /\ AllPutsOk
       /\ buf = <<>>
       /\ \A i \in 1..Len(appends) : appends[i].flushed /\ BlockPut(appends[i].loc.block_id)
  /\ index_key \in DOMAIN bucket =>
       /\ etl_pc = "published"
       /\ IndexLocations = {appends[i].loc : i \in 1..Len(appends)}
       /\ \A l \in IndexLocations : BlockPut(l.block_id)
  /\ (~AllPutsOk \/ etl_pc = "failed") => index_key \notin DOMAIN bucket

\* an index of three records in two blocks has been published
C22_Witness ==
  /\ etl_pc = "published"
  /\ index_key \in DOMAIN bucket
  /\ Len(appends) = 3
  /\ Len(puts) = 2
  /\ Cardinality(IndexLocations) = 3

\* the keys whose entry holds an outcome
Populated(c) == {c[i].k : i \in {j \in 1..Len(c) : c[j].v.set}}

\* C23: the cache never holds more than `capacity` entries, each for a
\* different key; an entry is populated only by a get that reached the store
\* and succeeded, with the outcome the store gave, and a populated entry keeps
\* its outcome for as long as it stays in the cache; a put leaves the cache as
\* it was
C23_CacheBound ==
  /\ [](/\ capacity >= 1
        /\ Len(entries) <= capacity
        /\ \A i, j \in 1..Len(entries) : entries[i].k = entries[j].k => i = j
        /\ Populated(entries) \subseteq asked)
  /\ [][\A i \in 1..Len(entries') :
          entries'[i].v.set =>
            \/ \E j \in 1..Len(entries) : entries[j] = entries'[i]
            \/ /\ lastCall'.op = "get" /\ lastCall'.reached /\ lastCall'.ok
               /\ lastCall'.key = entries'[i].k
               /\ lastCall'.ret = underlying_get(underlying, lastCall'.key)
               /\ entries'[i].v = Holding(lastCall'.ret)]_vars
  /\ [][(lastCall'.op = "get" /\ lastCall'.reached /\ lastCall'.ok) =>
          entries'[1] = [k |-> lastCall'.key, v |-> Holding(lastCall'.ret)]]_vars
  /\ [][(nputs' # nputs) => entries' = entries]_vars

\* a full cache after a put: the entry cached before the put holds the outcome
\* the store gave then, and the store holds the blob since
C23_Witness ==
  /\ Len(entries) = capacity
  /\ capacity = MaxCapacity
  /\ lastCall.op = "put" /\ lastCall.ok
  /\ lastCall.key \in Populated(entries)
  /\ LruValue(entries, lastCall.key) = Holding(None)
  /\ underlying_get(underlying, lastCall.key) # None

\* the gets of key before the last call logged
EarlierGets(key) == {i \in 1..(Len(gets) - 1) : gets[i].key = key}

\* the get of key before the last call logged returned an error
FailedBefore(key) ==
  /\ EarlierGets(key) # {}
  /\ \A i \in EarlierGets(key) : (\A j \in EarlierGets(key) : j <= i) => ~gets[i].ok

\* C24: a get that returns an error was a miss that reached the store, and it
\* leaves no outcome cached for its key; no outcome is cached for a key whose
\* latest get failed; the next get of that key reaches the store again and,
\* when the store answers, returns the store's outcome and caches it
C24_ErrorsNotCached ==
  /\ (lastCall.op = "get" /\ ~lastCall.ok) =>
       /\ lastCall.reached
       /\ gets[Len(gets)] = [key |-> lastCall.key, ok |-> FALSE]
  /\ \A k \in Keys :
       (\E i \in 1..Len(gets) :
           /\ gets[i] = [key |-> k, ok |-> FALSE]
           /\ \A j \in (i + 1)..Len(gets) : gets[j].key # k)
         => k \notin Populated(entries)
  /\ (lastCall.op = "get" /\ FailedBefore(lastCall.key)) =>
       /\ lastCall.reached
       /\ fetches[Len(fetches)] = lastCall.key
       /\ lastCall.ok =>
            /\ lastCall.ret = underlying_get(underlying, lastCall.key)
            /\ entries[1] = [k |-> lastCall.key, v |-> Holding(lastCall.ret)]

\* a get failed, a put then stored a blob under its key, and the next get of
\* the key reached the store and returned the blob
C24_Witness ==
  /\ lastCall.op = "get" /\ lastCall.ok /\ lastCall.reached
  /\ FailedBefore(lastCall.key)
  /\ lastCall.ret # None
  /\ Cached(lastCall.key)

\* C25: a get that misses and whose inner get returns an error leaves the
\* outcomes cached for the other keys as they were, none of them evicted
C25_FailingGetKeepsOthers ==
  [][(gets' # gets /\ lastCall'.op = "get" /\ ~lastCall'.ok) =>
       \A k \in Populated(entries) :
         k \in Populated(entries') /\ LruValue(entries', k) = LruValue(entries, k)]_vars

====
